---- MODULE Spec2Model ----
(***************************************************************************)
(* Model of parlai/tasks/empathetic_dialogues/agents.py: the construction  *)
(* of an EmpatheticDialoguesTeacher (resolution of the perspective, the    *)
(* single pass of _setup_data over the lines of the csv file, the          *)
(* selection of the conversation halves) and the counters it serves.       *)
(*                                                                         *)
(* Strings the code takes apart are modelled already taken apart:          *)
(*   - a csv line is the sequence of its comma separated fields            *)
(*     (line.strip().split(","));                                          *)
(*   - a text field is the sequence of its tokens, where "_comma_" and     *)
(*     "_pipe_" are tokens of their own, so str.replace acts per token;    *)
(*   - the tags field is the sequence of its markers, so the substring     *)
(*     test '<POLITICAL>' in field is membership;                          *)
(*   - the candidates field is the sequence of its '|' separated texts,    *)
(*     the empty string being the empty sequence;                          *)
(*   - the perspective option is the sequence of its ',' separated items,  *)
(*     each the sequence of its ':' separated, stripped parts.             *)
(* Python indices are kept: F(row, k) is row[k], Line(i) is df[i].         *)
(* The optional embeddings (deepmoji) and keyword tokens (fasttextloc)     *)
(* are not configured: their four slots of a turn hold None.               *)
(***************************************************************************)
EXTENDS Integers, Sequences, FiniteSets, TLC

VARIABLES
    cls,          \* the class constructed
    opt,          \* the options handed to the constructor
    datatype,     \* self.datatype, split on ':'
    df,           \* the lines of the csv file of the split
    pc,           \* "new", "loop", "done", "failed"
    err,          \* the exception that ended the construction, or "None"
    stdout,       \* what the constructor printed
    perspective,  \* self.perspective, Unset while the attribute does not exist
    remove_political_convos,
    i,            \* the loop variable of _setup_data
    turn_idx,
    experiencer_text_dialogue,
    responder_text_dialogue,
    data,         \* self.data
    num_exs,
    num_eps,
    clone         \* a second teacher made from share() of this one, or NoClone

vars == <<cls, opt, datatype, df, pc, err, stdout, perspective,
          remove_political_convos, i, turn_idx, experiencer_text_dialogue,
          responder_text_dialogue, data, num_exs, num_eps, clone>>

-----------------------------------------------------------------------------
(* Bounds of the inputs *)

\* the longest file, in lines
MaxRows == 5

-----------------------------------------------------------------------------
(* Constants of the program *)

DEFAULT_TRAIN_EXPERIENCER_ONLY == FALSE

DEFAULT_REMOVE_POLITICAL_CONVOS == FALSE

PERSPECTIVES == {"experiencer", "responder", "both"}

DEFAULT_PERSPECTIVE ==
    << <<"train", "both">>, <<"test", "experiencer">>, <<"valid", "experiencer">> >>

Classes ==
    {"EmpatheticDialoguesTeacher", "ExperiencerEmpatheticDialoguesTeacher", "DefaultTeacher"}

None == "None"

Unset == "<no attribute>"

NoClone == [made |-> FALSE]

-----------------------------------------------------------------------------
(* The input files: the lines of <datapath>/.../<split>.csv *)

Digits == <<"0", "1", "2", "3", "4", "5", "6", "7", "8", "9">>

\* the decimal numeral of n, as the file holds it
Str(n) == Digits[n + 1]

ConvName == <<"c1", "c2">>

Emotion == <<"joy", "sad">>

Situation == << <<"sit">>, <<"lost", "_comma_", "again">> >>

Speaker(turn) == IF turn = 1 THEN "hi" ELSE IF turn = 2 THEN "hello back" ELSE "spk"

Utterance(turn) ==
    IF turn = 1 THEN <<"u1">>
    ELSE IF turn = 2 THEN <<"u2">>
    ELSE <<"well", "_comma_", Str(turn)>>

Candidates(turn) ==
    IF turn % 2 = 0
    THEN << <<"a", "_comma_", "b">>, <<"c", "_pipe_", "d">> >>
    ELSE <<>>

\* conv_id, utterance_idx, context, prompt, speaker_idx, utterance, selfeval,
\* tags, and what may follow them
AllFields(conv, turn, political) ==
    << ConvName[conv], Str(turn), Emotion[conv], Situation[conv], Speaker(turn),
       Utterance(turn), "", IF political THEN <<"<POLITICAL>">> ELSE <<>>,
       Candidates(turn), "x" >>

Row(conv, turn, political, nfields) == SubSeq(AllFields(conv, turn, political), 1, nfields)

\* b[k]: line k starts a conversation; the first line always does
Boundaries(n) == {b \in [1..n -> BOOLEAN] : n = 0 \/ b[1]}

RECURSIVE ConvNo(_, _)
ConvNo(b, k) ==
    IF k = 1 THEN 1
    ELSE IF b[k] THEN 3 - ConvNo(b, k - 1) ELSE ConvNo(b, k - 1)

\* the turn numbers count from 1 in each conversation; the line gapAt, if any,
\* and the lines after it in its conversation are one too high
RECURSIVE TurnNo(_, _, _)
TurnNo(b, gapAt, k) ==
    (IF k = gapAt THEN 1 ELSE 0) + (IF b[k] THEN 1 ELSE TurnNo(b, gapAt, k - 1) + 1)

\* at most one line of a file is out of order or has the wrong number of fields
Anomalies(n) == {[kind |-> "none", at |-> 0]} \cup [kind : {"gap", "short", "long"}, at : 1..n]

NFields(a, withCands, k) ==
    IF a.kind = "short" /\ a.at = k THEN 7
    ELSE IF a.kind = "long" /\ a.at = k THEN 10
    ELSE IF withCands THEN 9 ELSE 8

File(n, b, a, polAt, withCands) ==
    [k \in 1..n |-> Row(ConvNo(b, k),
                        TurnNo(b, IF a.kind = "gap" THEN a.at ELSE 0, k),
                        polAt = k,
                        NFields(a, withCands, k))]

-----------------------------------------------------------------------------
(* The options *)

PerspectiveArgs ==
    { << <<"experiencer">> >>, << <<"responder">> >>, << <<"both">> >>,
      DEFAULT_PERSPECTIVE,
      << <<"train", "both">> >>,
      << <<"all">> >>,
      << <<"train", "all">>, <<"valid", "all">> >> }

Datatypes == { <<"train">>, <<"valid">>, <<"test">> }

\* an option the caller did not give is no key of opt
Options ==
    [train_experiencer_only : BOOLEAN, perspective : PerspectiveArgs,
     remove_political_convos : BOOLEAN]
    \cup { <<>> }

PlainOptions ==
    [train_experiencer_only : {FALSE},
     perspective : { << <<"experiencer">> >>, << <<"responder">> >>, << <<"both">> >> },
     remove_political_convos : BOOLEAN]

-----------------------------------------------------------------------------------------------------------------------------------------------------
(* The state before the constructor runs: any class, options and split over *)
(* a file with no anomaly, or the base class with a literal perspective     *)
(* over any file.                                                           *)

Input(file, k, o, d) ==
    /\ df = file
    /\ cls = k
    /\ opt = o
    /\ datatype = d

NoAnomaly == [kind |-> "none", at |-> 0]

Init ==
    /\ \/ \E n \in 0..MaxRows : \E b \in Boundaries(n) :
          \E k \in Classes, o \in Options, d \in Datatypes :
             Input(File(n, b, NoAnomaly, 0, FALSE), k, o, d)
       \/ \E n \in 0..MaxRows : \E b \in Boundaries(n) :
          \E a \in Anomalies(n), polAt \in 0..n, withCands \in BOOLEAN :
          \E o \in PlainOptions :
             Input(File(n, b, a, polAt, withCands), "EmpatheticDialoguesTeacher", o, <<"train">>)
    /\ pc = "new"
    /\ err = None
    /\ stdout = <<>>
    /\ perspective = Unset
    /\ remove_political_convos = FALSE
    /\ i = 0
    /\ turn_idx = 0
    /\ experiencer_text_dialogue = <<>>
    /\ responder_text_dialogue = <<>>
    /\ data = <<>>
    /\ num_exs = 0
    /\ num_eps = 0
    /\ clone = NoClone

-----------------------------------------------------------------------------
(* Python helpers *)

\* opt.get(key, default)
Get(o, key, default) == IF key \in DOMAIN o THEN o[key] ELSE default

\* row[k]
F(row, k) == row[k + 1]

\* df[k]
Line(k) == df[k + 1]

Range(s) == {s[k] : k \in DOMAIN s}

\* text.replace(old, new)
Replace(text, old, new) == [k \in DOMAIN text |-> IF text[k] = old THEN new ELSE text[k]]

IsNumeral(s) == \E n \in 0..9 : Digits[n + 1] = s

\* int(s) of a numeral
PyInt(s) == CHOOSE n \in 0..9 : Digits[n + 1] = s

RECURSIVE SumLen(_)
\* sum([len(d) for d in eps])
SumLen(eps) == IF eps = <<>> THEN 0 ELSE Len(Head(eps)) + SumLen(Tail(eps))

-----------------------------------------------------------------------------
(* __init__: the perspective *)

\* self.datatype.split(':')[0]
BaseDatatype(dt) == dt[1]

\* dict(...) of the items takes items of two parts only
DictOK(arg) == \A k \in DOMAIN arg : Len(arg[k]) = 2

DictKeys(arg) == {arg[k][1] : k \in DOMAIN arg}

\* the value of the last item with the key
DictGet(arg, key) ==
    LET last == CHOOSE k \in DOMAIN arg :
                    /\ arg[k][1] = key
                    /\ \A m \in DOMAIN arg : arg[m][1] = key => m <= k
    IN arg[last][2]

\* the try block: the value self.perspective is left with (Unset when no
\* assignment was reached) and whether an exception was caught
ResolvePerspective(o, base) ==
    LET arg == Get(o, "perspective", DEFAULT_PERSPECTIVE) IN
    IF Len(arg) = 1 /\ Len(arg[1]) = 1 /\ arg[1][1] \in PERSPECTIVES
    THEN [value |-> arg[1][1], raised |-> FALSE]
    ELSE IF ~DictOK(arg) \/ base \notin DictKeys(arg)
    THEN [value |-> Unset, raised |-> TRUE]
    ELSE [value |-> DictGet(arg, base), raised |-> DictGet(arg, base) \notin PERSPECTIVES]

ExperiencerSideOnly(o, base) ==
    Get(o, "train_experiencer_only", DEFAULT_TRAIN_EXPERIENCER_ONLY) /\ base = "train"

\* self.perspective after the if/else of the constructor
PerspectiveOf(o, base) ==
    IF ExperiencerSideOnly(o, base) THEN "experiencer" ELSE ResolvePerspective(o, base).value

ErrorLine(o, base) ==
    IF ~ExperiencerSideOnly(o, base) /\ ResolvePerspective(o, base).raised
    THEN << <<"Error: Invalid perspective argument string. --help for more info.">> >>
    ELSE <<>>

\* ExperiencerEmpatheticDialoguesTeacher.__init__ sets the option first
OptOf(k, o) ==
    IF k = "ExperiencerEmpatheticDialoguesTeacher"
    THEN ("perspective" :> << <<"responder">> >>) @@ o
    ELSE o

\* The constructor up to the loop of _setup_data. The print of the
\* perspectives reads self.perspective: with the attribute missing it raises
\* AttributeError and nothing after it runs.
Construct ==
    /\ pc = "new"
    /\ LET o == OptOf(cls, opt)
           base == BaseDatatype(datatype)
           p == PerspectiveOf(o, base)
       IN /\ opt' = o
          /\ perspective' = p
          /\ IF p = Unset
             THEN /\ stdout' = ErrorLine(o, base)
                  /\ pc' = "failed"
                  /\ err' = "AttributeError"
                  /\ UNCHANGED <<remove_political_convos, i, turn_idx, data>>
             ELSE /\ stdout' = ErrorLine(o, base) \o
                        << <<"[EmpatheticDialoguesTeacher] Perspectives: ", p,
                             ", for datatype: ", base>> >>
                  /\ remove_political_convos' =
                        Get(o, "remove_political_convos", DEFAULT_REMOVE_POLITICAL_CONVOS)
                  /\ pc' = "loop"
                  /\ err' = None
                  /\ i' = 1
                  /\ turn_idx' = 1
                  /\ data' = <<>>
    /\ experiencer_text_dialogue' = <<>>
    /\ responder_text_dialogue' = <<>>
    /\ UNCHANGED <<cls, datatype, df, num_exs, num_eps, clone>>

-----------------------------------------------------------------------------
(* _setup_data: one pair of lines *)

\* a slip: the assert asks only that the turn index goes up
TurnCheckIncreasing(cparts, sparts, t) ==
    PyInt(F(cparts, 1)) < PyInt(F(sparts, 1))

\* the condition the assert states
TurnCheck(cparts, sparts, t) ==
    PyInt(F(cparts, 1)) + 1 = PyInt(F(sparts, 1)) /\ PyInt(F(sparts, 1)) = t

\* The exception a pair of lines of one conversation raises, in the order the
\* statements run, or None: the subscripts and int() of the assert, the
\* assert, cparts[5], sparts[5], sparts[2], sparts[3], the count of the
\* fields of sparts, cparts[7].
Raised(cparts, sparts, t) ==
    IF Len(cparts) < 2 THEN "IndexError"
    ELSE IF ~IsNumeral(F(cparts, 1)) THEN "ValueError"
    ELSE IF Len(sparts) < 2 THEN "IndexError"
    ELSE IF ~IsNumeral(F(sparts, 1)) THEN "ValueError"
    ELSE IF ~TurnCheck(cparts, sparts, t) THEN "AssertionError"
    ELSE IF Len(cparts) < 6 \/ Len(sparts) < 6 THEN "IndexError"
    ELSE IF Len(sparts) \notin {8, 9} THEN "ValueError"
    ELSE IF Len(cparts) < 8 THEN "IndexError"
    ELSE None

\* of a line of 8 or 9 fields
InlineLabelCandidates(sparts) ==
    IF Len(sparts) = 9 /\ F(sparts, 8) # <<>>
    THEN [k \in DOMAIN F(sparts, 8) |->
             Replace(Replace(F(sparts, 8)[k], "_comma_", ","), "_pipe_", "|")]
    ELSE <<>>

\* a slip: the utterance read from the fifth field
ContextOfFifthField(cparts) == Replace(<<F(cparts, 4)>>, "_comma_", ",")

ContextOf(cparts) == Replace(F(cparts, 5), "_comma_", ",")

LabelOf(sparts) == Replace(F(sparts, 5), "_comma_", ",")

\* a slip: only the line of the label is looked at
IsPoliticalLabelOnly(cparts, sparts) ==
    "<POLITICAL>" \in Range(F(sparts, 7))

\* either the text or the label is marked as being political
IsPolitical(cparts, sparts) ==
    "<POLITICAL>" \in Range(F(cparts, 7)) \/ "<POLITICAL>" \in Range(F(sparts, 7))

\* dialogue_parts, its ten slots named. line is no slot of the list: it
\* records the index in df of the line the label was read from.
DialogueParts(cparts, sparts, line) ==
    [contextt |-> ContextOf(cparts),
     label |-> LabelOf(sparts),
     prompt |-> F(sparts, 2),
     sit |-> Replace(F(sparts, 3), "_comma_", ","),
     context_emb |-> None,
     cand_emb |-> None,
     ft_ctx |-> None,
     ft_cand |-> None,
     inline_label_candidates |-> InlineLabelCandidates(sparts),
     is_political |-> IsPolitical(cparts, sparts),
     line |-> line]

\* a slip: every turn from the second on taken for the experiencer's
IsExperiencerTextFromSecond(sparts) == PyInt(F(sparts, 1)) >= 2

\* experiencer is the "text" and responder is the "label"
IsExperiencerText(sparts) == PyInt(F(sparts, 1)) % 2 = 0

\* a slip: elif for the second if
SelectOneDialogue(experiencer, responder, persp, removePolitical) ==
    IF removePolitical /\ \E k \in DOMAIN (experiencer \o responder) :
                              (experiencer \o responder)[k].is_political
    THEN <<>>
    ELSE IF Len(experiencer) > 0 /\ persp # "responder" THEN <<experiencer>>
    ELSE IF Len(responder) > 0 /\ persp # "experiencer" THEN <<responder>>
    ELSE <<>>

\* a slip: the two perspectives taken for each other
SelectDialoguesSwapped(experiencer, responder, persp, removePolitical) ==
    IF removePolitical /\ \E k \in DOMAIN (experiencer \o responder) :
                              (experiencer \o responder)[k].is_political
    THEN <<>>
    ELSE (IF Len(experiencer) > 0 /\ persp # "experiencer" THEN <<experiencer>> ELSE <<>>)
         \o (IF Len(responder) > 0 /\ persp # "responder" THEN <<responder>> ELSE <<>>)

\* _select_dialogues_to_add
SelectDialoguesToAdd(experiencer, responder, persp, removePolitical) ==
    IF removePolitical /\ \E k \in DOMAIN (experiencer \o responder) :
                              (experiencer \o responder)[k].is_political
    THEN <<>>
    ELSE (IF Len(experiencer) > 0 /\ persp # "responder" THEN <<experiencer>> ELSE <<>>)
         \o (IF Len(responder) > 0 /\ persp # "experiencer" THEN <<responder>> ELSE <<>>)

\* One pass of the body of the for loop.
LoopBody ==
    /\ pc = "loop"
    /\ i < Len(df)
    /\ LET cparts == Line(i - 1)
           sparts == Line(i)
       IN IF F(cparts, 0) = F(sparts, 0)
          THEN /\ turn_idx' = turn_idx + 1
               /\ IF Raised(cparts, sparts, turn_idx + 1) # None
                  THEN /\ pc' = "failed"
                       /\ err' = Raised(cparts, sparts, turn_idx + 1)
                       /\ UNCHANGED <<i, experiencer_text_dialogue, responder_text_dialogue>>
                  ELSE /\ IF IsExperiencerText(sparts)
                          THEN /\ experiencer_text_dialogue' =
                                     Append(experiencer_text_dialogue,
                                            DialogueParts(cparts, sparts, i))
                               /\ UNCHANGED responder_text_dialogue
                          ELSE /\ responder_text_dialogue' =
                                     Append(responder_text_dialogue,
                                            DialogueParts(cparts, sparts, i))
                               /\ UNCHANGED experiencer_text_dialogue
                       /\ i' = i + 1
                       /\ UNCHANGED <<pc, err>>
               /\ UNCHANGED data
          ELSE \* the previous episode is finished
               /\ turn_idx' = 1
               /\ data' = data \o SelectDialoguesToAdd(experiencer_text_dialogue,
                                                       responder_text_dialogue,
                                                       perspective, remove_political_convos)
               /\ experiencer_text_dialogue' = <<>>
               /\ responder_text_dialogue' = <<>>
               /\ i' = i + 1
               /\ UNCHANGED <<pc, err>>
    /\ UNCHANGED <<cls, opt, datatype, df, stdout, perspective, remove_political_convos,
                   num_exs, num_eps, clone>>

\* The end of the loop: the final episode, then the counters of __init__.
Finish ==
    /\ pc = "loop"
    /\ i >= Len(df)
    /\ LET final == data \o SelectDialoguesToAdd(experiencer_text_dialogue,
                                                 responder_text_dialogue,
                                                 perspective, remove_political_convos)
       IN /\ data' = final
          /\ num_exs' = SumLen(final)
          /\ num_eps' = Len(final)
    /\ pc' = "done"
    /\ UNCHANGED <<cls, opt, datatype, df, err, stdout, perspective,
                   remove_political_convos, i, turn_idx, experiencer_text_dialogue,
                   responder_text_dialogue, clone>>

-----------------------------------------------------------------------------
(* The teacher once built *)

num_episodes == IF cls = "ExperiencerEmpatheticDialoguesTeacher" THEN Len(data) ELSE num_eps

num_examples == IF cls = "ExperiencerEmpatheticDialoguesTeacher" THEN Len(data) ELSE num_exs

\* share(), and the constructor run with what it returns and the same
\* options: no print of the perspectives, no build, the data by reference.
Share ==
    /\ pc = "done"
    /\ ~clone.made
    /\ clone' = [made |-> TRUE,
                 perspective |-> PerspectiveOf(OptOf(cls, opt), BaseDatatype(datatype)),
                 remove_political_convos |->
                     Get(opt, "remove_political_convos", DEFAULT_REMOVE_POLITICAL_CONVOS),
                 data |-> data,
                 num_exs |-> SumLen(data),
                 num_eps |-> Len(data)]
    /\ stdout' = stdout \o ErrorLine(OptOf(cls, opt), BaseDatatype(datatype))
    /\ UNCHANGED <<cls, opt, datatype, df, pc, err, perspective, remove_political_convos,
                   i, turn_idx, experiencer_text_dialogue, responder_text_dialogue,
                   data, num_exs, num_eps>>

Next == Construct \/ LoopBody \/ Finish \/ Share

Spec == Init /\ [][Next]_vars

-----------------------------------------------------------------------------
(* What the claims speak of. Lines are numbered from 1 here: the line the   *)
(* label of a turn t was read from is Row(t.line + 1), the line of its      *)
(* context is Row(t.line).                                                  *)

Rows == 1..Len(df)

ConvIdOf(k) == df[k][1]

TurnOf(k) == PyInt(df[k][2])

\* the conversations: the maximal runs <<a, b>> of lines with one identifier
Runs ==
    {r \in Rows \X Rows :
        /\ r[1] <= r[2]
        /\ \A k \in r[1]..r[2] : ConvIdOf(k) = ConvIdOf(r[1])
        /\ r[1] = 1 \/ ConvIdOf(r[1] - 1) # ConvIdOf(r[1])
        /\ r[2] = Len(df) \/ ConvIdOf(r[2] + 1) # ConvIdOf(r[2])}

RunLen(r) == r[2] - r[1] + 1

\* every line has 8 or 9 fields and the turn indices are 1..N
WellFormed(r) ==
    \A k \in r[1]..r[2] : Len(df[k]) \in {8, 9} /\ df[k][2] = Str(k - r[1] + 1)

\* some line of the conversation carries the political marker
Flagged(r) ==
    \E k \in r[1]..r[2] : Len(df[k]) >= 8 /\ "<POLITICAL>" \in Range(df[k][8])

\* the lines the labels of an episode were read from
LabelRows(ep) == {ep[j].line + 1 : j \in DOMAIN ep}

AllLabelRows == UNION {LabelRows(data[e]) : e \in DOMAIN data}

\* the episodes of the list built from the lines of the conversation
EpisodesOf(r) ==
    {e \in DOMAIN data : data[e] # <<>> /\ LabelRows(data[e]) \subseteq r[1]..r[2]}

RECURSIVE SumOver(_)
SumOver(es) ==
    IF es = {} THEN 0
    ELSE LET e == CHOOSE x \in es : TRUE IN Len(data[e]) + SumOver(es \ {e})

\* the lines after the first of a conversation whose turn index is even, odd
EvenRows(r) == {k \in (r[1] + 1)..r[2] : TurnOf(k) % 2 = 0}

OddRows(r) == {k \in (r[1] + 1)..r[2] : TurnOf(k) % 2 = 1}

-----------------------------------------------------------------------------
(* C1 *)

\* C1 (as amended): with the perspective 'both' and the political exclusion off,
\* a well-formed conversation of N lines gives 0, 1 or 2 episodes that hold
\* N - 1 turns in all, one for each pair of adjacent lines.
C1_TurnsArePairs ==
    (pc = "done" /\ perspective = "both" /\ ~remove_political_convos) =>
        \A r \in Runs : WellFormed(r) =>
            /\ Cardinality(EpisodesOf(r)) \in {0, 1, 2}
            /\ SumOver(EpisodesOf(r)) = RunLen(r) - 1

\* C1 (as stated): the episodes of a conversation of N lines hold N turns.
C1_TurnsAreRows ==
    (pc = "done" /\ perspective = "both" /\ ~remove_political_convos) =>
        \A r \in Runs : WellFormed(r) =>
            /\ Cardinality(EpisodesOf(r)) \in {0, 1, 2}
            /\ SumOver(EpisodesOf(r)) = RunLen(r)

C1_Witness ==
    /\ pc = "done" /\ perspective = "both" /\ ~remove_political_convos
    /\ \E r \in Runs : WellFormed(r) /\ RunLen(r) >= 4 /\ Cardinality(EpisodesOf(r)) = 2
    /\ \E r \in Runs : WellFormed(r) /\ RunLen(r) = 1

-----------------------------------------------------------------------------
(* C2 *)

\* C2: with remove_political_convos on, no turn of the list was built from the
\* lines of a conversation one of whose lines carries the political marker.
C2_PoliticalDropped ==
    remove_political_convos =>
        \A r \in Runs : Flagged(r) => AllLabelRows \cap (r[1]..r[2]) = {}

C2_Witness ==
    /\ pc = "done" /\ remove_political_convos
    /\ data # <<>>
    /\ \E r \in Runs : Flagged(r) /\ RunLen(r) >= 3
                       /\ "<POLITICAL>" \in Range(df[r[1]][8])

-----------------------------------------------------------------------------
(* C3 *)

\* lines k and k + 1 are of one conversation and the turn index does not go up by 1
GapAt(k) ==
    /\ k + 1 \in Rows
    /\ ConvIdOf(k) = ConvIdOf(k + 1)
    /\ TurnOf(k + 1) # TurnOf(k) + 1

\* C3: the build never gets past a pair of lines of one conversation whose turn
\* indices are not consecutive, and so never completes.
C3_GapIsFatal ==
    \A k \in Rows : GapAt(k) =>
        /\ pc # "done"
        /\ pc = "loop" => i <= k

C3_Witness ==
    /\ pc = "failed" /\ err = "AssertionError"
    /\ \E k \in Rows : GapAt(k) /\ i = k /\ TurnOf(k) = 2 /\ TurnOf(k + 1) = 4

-----------------------------------------------------------------------------
(* C4 *)

\* C4 (as stated): a build completes only over lines of 8 or 9 fields.
C4_FieldCountIsFatal ==
    pc = "done" => \A k \in Rows : Len(df[k]) \in {8, 9}

-----------------------------------------------------------------------------
(* C5 *)

\* C5: of a conversation the political exclusion does not drop, the list holds
\* the turns of the even lines as one episode iff there are any and the
\* perspective is not 'responder', and the turns of the odd lines as one
\* episode iff there are any and the perspective is not 'experiencer'.
C5_Selection ==
    pc = "done" =>
        \A r \in Runs : ~(remove_political_convos /\ Flagged(r)) =>
            /\ (\E e \in DOMAIN data : LabelRows(data[e]) = EvenRows(r) /\ data[e] # <<>>)
                   <=> (EvenRows(r) # {} /\ perspective # "responder")
            /\ (\E e \in DOMAIN data : LabelRows(data[e]) = OddRows(r) /\ data[e] # <<>>)
                   <=> (OddRows(r) # {} /\ perspective # "experiencer")

C5_Witness ==
    /\ pc = "done" /\ perspective = "experiencer"
    /\ \E r \in Runs : OddRows(r) # {} /\ EvenRows(r) # {}
                       /\ ~(remove_political_convos /\ Flagged(r))
                       /\ Cardinality(EpisodesOf(r)) = 1

-----------------------------------------------------------------------------
(* C6 *)

\* the two lines of the scenario, fields in the order of the file
ScenarioFile ==
    << <<"c1", "1", "joy", <<"sit">>, "hi", <<"u1">>, "", <<>>>>,
       <<"c1", "2", "joy", <<"sit">>, "hello back", <<"u2">>, "", <<>>>> >>

AllTurns == UNION {Range(data[e]) : e \in DOMAIN data}

\* C6 (as amended): the context of a turn is the sixth field of the previous
\* line and its label the sixth field of the current line, "_comma_" restored;
\* the emotion and the situation are the third and fourth fields of the
\* current line and the political marker is looked for in the eighth field of
\* both. The two lines of the scenario give one episode of one turn with
\* context "u1", label "u2", emotion "joy", situation "sit", not political.
C6_FieldsOfATurn ==
    /\ \A t \in AllTurns :
          /\ t.contextt = Replace(df[t.line][6], "_comma_", ",")
          /\ t.label = Replace(df[t.line + 1][6], "_comma_", ",")
          /\ t.prompt = df[t.line + 1][3]
          /\ t.sit = Replace(df[t.line + 1][4], "_comma_", ",")
          /\ t.is_political = ("<POLITICAL>" \in Range(df[t.line][8]) \cup Range(df[t.line + 1][8]))
    /\ (pc = "done" /\ perspective = "both" /\ df = ScenarioFile) =>
          /\ Len(data) = 1
          /\ Len(data[1]) = 1
          /\ data[1][1].contextt = <<"u1">>
          /\ data[1][1].label = <<"u2">>
          /\ data[1][1].prompt = "joy"
          /\ data[1][1].sit = <<"sit">>
          /\ ~data[1][1].is_political

\* C6 (as stated): the turn of the scenario has context "hi" and label
\* "hello back", the fifth fields of the two lines.
C6_UtteranceIsFifthField ==
    (pc = "done" /\ perspective = "both" /\ df = ScenarioFile) =>
          /\ Len(data) = 1
          /\ Len(data[1]) = 1
          /\ data[1][1].contextt = <<"hi">>
          /\ data[1][1].label = <<"hello back">>
          /\ data[1][1].prompt = "joy"
          /\ data[1][1].sit = <<"sit">>
          /\ ~data[1][1].is_political

C6_Witness ==
    pc = "done" /\ perspective = "both" /\ df = ScenarioFile /\ Len(data) = 1

-----------------------------------------------------------------------------
(* C7 *)

ErrorLogged ==
    <<"Error: Invalid perspective argument string. --help for more info.">> \in Range(stdout)

\* C7 (as stated): once the error of an unresolved perspective is logged the
\* construction goes on: it does not abort.
C7_LogAndContinue ==
    (pc # "new" /\ ErrorLogged) => pc \in {"loop", "done"}

-----------------------------------------------------------------------------
(* C8 *)

\* C8 (as stated): in every class num_examples() is the sum of the lengths of
\* the episodes and num_episodes() their number.
C8_Counts ==
    pc = "done" => num_examples = SumLen(data) /\ num_episodes = Len(data)

-----------------------------------------------------------------------------
(* C9 *)

\* C9 (as stated): every label the derived class holds was read from a line
\* with an odd turn index, whatever the options and the split.
C9_DerivedIsResponder ==
    (cls = "ExperiencerEmpatheticDialoguesTeacher" /\ pc = "done") =>
        \A k \in AllLabelRows : TurnOf(k) % 2 = 1

-----------------------------------------------------------------------------
(* C10 *)

\* C10: every episode of the list is non-empty, its turns were read from pairs
\* of lines of one conversation, in the order of the lines, and the turn
\* indices of its label lines are all even or all odd.
C10_Episodes ==
    \A e \in DOMAIN data :
        /\ data[e] # <<>>
        /\ \E r \in Runs : LabelRows(data[e]) \subseteq (r[1] + 1)..r[2]
        /\ \A j, k \in DOMAIN data[e] : j < k => data[e][j].line < data[e][k].line
        /\ \/ \A k \in LabelRows(data[e]) : TurnOf(k) % 2 = 0
           \/ \A k \in LabelRows(data[e]) : TurnOf(k) % 2 = 1

C10_Witness ==
    /\ pc = "done"
    /\ Cardinality(Runs) >= 2
    /\ \E e, f \in DOMAIN data :
          /\ e # f
          /\ Len(data[e]) >= 2
          /\ \E r \in Runs : LabelRows(data[e]) \cup LabelRows(data[f]) \subseteq r[1]..r[2]

====
